---- MODULE Spec2Model ----
(***************************************************************************)
(* A model of cdillond/vanity: the brute-force search for a private key    *)
(* whose address starts and/or ends with a requested hex pattern.          *)
(*                                                                         *)
(* The main thread validates the flags, arms an optional timer, starts the *)
(* workers and then selects between the result channel and the timer.      *)
(* Every worker loops: draw a key (crypto.GenerateKey, or the sliding      *)
(* window of fastRand), derive its address, compare it with the pattern,   *)
(* and send the first match on the unbuffered channel ch.  log.Fatalln in  *)
(* any goroutine ends the whole process, and so does main returning.       *)
(*                                                                         *)
(* Strings are sequences of one-character strings.  The key-derivation     *)
(* oracle (go-ethereum) is a fixed function of the seed; widths are scaled *)
(* down: SeedLen stands for the 32-byte seed, SmallBuf and LargeBuf for    *)
(* the 4 KiB and 1 MiB buffers, NumWorkers for the 16 goroutines.          *)
(***************************************************************************)
EXTENDS Integers, Sequences, FiniteSets, TLC

VARIABLES
    prefix, suffix, insensitive, longOk, useFast, timeOut,  \* the flags
    pc, bPref, bSuf, cmp, timerArmed, timerFired, spawned, got, \* main
    wpc, res, n, rbuf,                                      \* the workers
    stdout, stderr, sink, exitCode,                         \* the process
    counting, calls, reads,                                 \* the probe
    done, mutex, tpc                        \* the lock-guarded variant

flagVars == <<prefix, suffix, insensitive, longOk, useFast, timeOut>>
mainVars == <<pc, bPref, bSuf, cmp, timerArmed, timerFired, spawned, got>>
workerVars == <<wpc, res, n, rbuf>>
ioVars == <<stdout, stderr, sink, exitCode>>
\* a probe on the closure of fastRand: while counting, calls[w] is the number
\* of calls of k() in worker w that returned a key and reads[w] the number
\* of times its closure called rand.Read(rbuf)
probeVars == <<counting, calls, reads>>
\* part_000, the single-threaded variant: the flag done, the holder of the
\* mutex m ("free", "main" or "timer"), the position of the timer's callback
lockVars == <<done, mutex, tpc>>
vars == <<flagVars, mainVars, workerVars, ioVars, probeVars, lockVars>>

----------------------------------------------------------------------------
(* Bounds of the model *)

\* the number of worker goroutines (16 in the code)
NumWorkers == 2
\* the width of a key seed in bytes (32 in the code)
SeedLen == 2
\* the buffer of fastRand for a short prefix (4 << 10 in the code)
SmallBuf == 3
\* the buffer of fastRand for a long prefix (1 << 20 in the code)
LargeBuf == 4
\* the order of the curve's group: ToECDSA accepts 0 < d < CurveN
CurveN == 257
\* the number of keys the probe counts per worker
MaxCalls == 5

Workers == 1..NumWorkers
\* the byte values the entropy source produces
ByteVals == {0, 1}

----------------------------------------------------------------------------
(* Characters and strings *)

Digits == <<"0", "1", "2", "3", "4", "5", "6", "7", "8", "9">>
LowerAlpha == <<"a", "b", "c", "d", "e", "f", "g">>
UpperAlpha == <<"A", "B", "C", "D", "E", "F", "G">>

Range(s) == {s[i] : i \in 1..Len(s)}
IndexOf(s, c) == CHOOSE i \in 1..Len(s) : s[i] = c

\* the code point of a character
Ord(c) ==
    CASE c \in Range(Digits) -> 47 + IndexOf(Digits, c)
      [] c \in Range(UpperAlpha) -> 64 + IndexOf(UpperAlpha, c)
      [] c \in Range(LowerAlpha) -> 96 + IndexOf(LowerAlpha, c)
      [] c = "x" -> 120

\* bytes.ToLower, on one character
ToLowerChar(c) ==
    IF c \in Range(UpperAlpha) THEN LowerAlpha[IndexOf(UpperAlpha, c)] ELSE c
ToUpperChar(c) ==
    IF c \in Range(LowerAlpha) THEN UpperAlpha[IndexOf(LowerAlpha, c)] ELSE c
ToLower(s) == [i \in 1..Len(s) |-> ToLowerChar(s[i])]

\* c repeated k times
Rep(c, k) == [i \in 1..k |-> c]

----------------------------------------------------------------------------
(* The address of a key, and its two encodings *)

HexDigits == Digits \o SubSeq(LowerAlpha, 1, 6)

\* hex.AppendEncode(buf, a[:]) with an empty buf: two lowercase digits a byte
HexEncode(a) ==
    [i \in 1..(2 * Len(a)) |->
        IF i % 2 = 1 THEN HexDigits[(a[(i + 1) \div 2] \div 16) + 1]
                     ELSE HexDigits[(a[i \div 2] % 16) + 1]]

SumBytes(a) == IF Len(a) = 0 THEN 0 ELSE
    LET S[i \in 0..Len(a)] == IF i = 0 THEN 0 ELSE S[i - 1] + a[i] IN S[Len(a)]

\* the i-th nibble of the hash that decides the checksum's letter case (a
\* fixed function of the address standing for Keccak-256 of its hex digits)
HashNibble(a, i) == (SumBytes(a) + 5 * i) % 16

\* a.Hex(): "0x" and the digits, a letter in upper case where its hash
\* nibble is above 7
Hex(a) ==
    LET h == HexEncode(a) IN
    <<"0", "x">> \o [i \in 1..Len(h) |->
        IF HashNibble(a, i) > 7 THEN ToUpperChar(h[i]) ELSE h[i]]

\* the addresses of the keys: a fixed oracle
AddrTable == <<
    <<0, 0, 239>>, <<0, 10, 176>>, <<171, 0, 0>>, <<1, 35, 69>>,
    <<0, 0, 0>>, <<186, 0, 171>>, <<171, 205, 239>> >>

\* crypto.PubkeyToAddress(privKey.PublicKey)
PubkeyToAddress(k) == AddrTable[(k % Len(AddrTable)) + 1]

\* var res result: no key, the zero address
Nil == -1
ZeroAddr == <<0, 0, 0>>
ZeroResult == [privKey |-> Nil, addr |-> ZeroAddr]

----------------------------------------------------------------------------
(* The matchers *)

\* insensitiveCmp refusing a pattern as long as the whole encoding
insensitiveCmpStrictLen(a, pre, suf) ==
    LET hexAddr == HexEncode(a) IN
    IF Len(pre) + Len(suf) >= Len(hexAddr) THEN FALSE
    ELSE /\ \A i \in 1..Len(pre) : pre[i] = hexAddr[i]
         /\ \A i \in 1..Len(suf) :
                suf[i] = hexAddr[Len(hexAddr) - Len(suf) + i]

\* insensitiveCmp: the lowercase digits against the (lowercased) pattern
insensitiveCmp(a, pre, suf) ==
    LET hexAddr == HexEncode(a) IN
    IF Len(pre) + Len(suf) > Len(hexAddr) THEN FALSE
    ELSE /\ \A i \in 1..Len(pre) : pre[i] = hexAddr[i]
         /\ \A i \in 1..Len(suf) :
                suf[i] = hexAddr[Len(hexAddr) - Len(suf) + i]

\* sensitiveCmp without the loop over the suffix
sensitiveCmpNoSuffix(a, pre, suf) ==
    LET hexAddr == Hex(a) IN
    IF Len(pre) + Len(suf) > Len(hexAddr) THEN FALSE
    ELSE \A i \in 1..Len(pre) : pre[i] = hexAddr[i]

\* sensitiveCmp: the checksummed text, "0x" included, against the pattern
sensitiveCmp(a, pre, suf) ==
    LET hexAddr == Hex(a) IN
    IF Len(pre) + Len(suf) > Len(hexAddr) THEN FALSE
    ELSE /\ \A i \in 1..Len(pre) : pre[i] = hexAddr[i]
         /\ \A i \in 1..Len(suf) :
                suf[i] = hexAddr[Len(hexAddr) - Len(suf) + i]

\* the call cmp(res.addr, bPref, bSuf, buf) through the function value cmp
Cmp(f, a, pre, suf) ==
    IF f = "insensitiveCmp" THEN insensitiveCmp(a, pre, suf)
                            ELSE sensitiveCmp(a, pre, suf)

----------------------------------------------------------------------------
(* Validation *)

\* the longest pattern isValidSubstring accepts at all
MaxPatternLen == 32
\* the longest pattern it accepts without a warning
MaxShortLen == 5

IsHexChar(r) ==
    \/ Ord(r) <= Ord("9") /\ Ord(r) >= Ord("0")
    \/ Ord(r) <= Ord("f") /\ Ord(r) >= Ord("a")
    \/ Ord(r) <= Ord("F") /\ Ord(r) >= Ord("A")

\* isValidSubstring with the warning tested before the characters
isValidSubstringWarnFirst(s) ==
    IF Len(s) > MaxPatternLen THEN "errTooLongInvalid"
    ELSE IF Len(s) > MaxShortLen THEN "errTooLong"
    ELSE IF \E i \in 1..Len(s) : ~IsHexChar(s[i]) THEN "errInvalid"
    ELSE "nil"

\* isValidSubstring: "nil" or the error it returns
isValidSubstring(s) ==
    IF Len(s) > MaxPatternLen THEN "errTooLongInvalid"
    ELSE IF \E i \in 1..Len(s) : ~IsHexChar(s[i]) THEN "errInvalid"
    ELSE IF Len(s) > MaxShortLen THEN "errTooLong"
    ELSE "nil"

\* Admit with the warning fatal unless both -l and -t are given
AdmitBothFlags(p, s, l, t) ==
    IF p = <<>> /\ s = <<>> THEN "usage"
    ELSE LET err == isValidSubstring(p \o s) IN
         IF err # "nil" /\ err # "errTooLong" THEN err
         ELSE IF err # "nil" /\ (~l \/ t = 0) THEN err
         ELSE "search"

\* main, from flag.Parse to the first log line: "usage" (return), the
\* error main dies with, or "search"
Admit(p, s, l, t) ==
    IF p = <<>> /\ s = <<>> THEN "usage"
    ELSE LET err == isValidSubstring(p \o s) IN
         IF err # "nil" /\ err # "errTooLong" THEN err
         ELSE IF err # "nil" /\ ~l /\ t = 0 THEN err
         ELSE "search"

\* a timer armed for -t 0 as well: it fires at once
TimerIsArmedForZero(t) == t >= 0
\* timedOut is a channel of time.After only for a positive -t
TimerIsArmed(t) == t > 0

\* the text of the timeout error: "second" or "seconds"
TimeoutMsg(p, t) ==
    IF Len(p) > 1 THEN "operation timed out: seconds"
                  ELSE "operation timed out: second"
IsTimeoutMsg(m) ==
    m \in {"operation timed out: seconds", "operation timed out: second"}

----------------------------------------------------------------------------
(* The keys *)

\* the number a seed is read as (big-endian)
SeedValue(seed) == IF Len(seed) = 0 THEN 0 ELSE
    LET V[i \in 0..Len(seed)] ==
            IF i = 0 THEN 0 ELSE V[i - 1] * 256 + seed[i]
    IN V[Len(seed)]

\* crypto.ToECDSA: the key of a seed, or Nil with an error for a seed that
\* is zero or not below the group order
ToECDSA(seed) ==
    LET d == SeedValue(seed) IN
    IF d >= CurveN \/ d <= 0 THEN [pk |-> Nil, err |-> "errInvalidKey"]
    ELSE [pk |-> d, err |-> "nil"]

Seeds == [1..SeedLen -> ByteVals]
\* crypto.GenerateKey draws until the seed is a key
GeneratedKeys == {ToECDSA(s).pk : s \in {x \in Seeds : ToECDSA(x).err = "nil"}}

\* the size of the buffer a worker gives fastRand
BufSize(p) == IF Len(p) > MaxShortLen THEN LargeBuf ELSE SmallBuf

\* the refill one call early: the last window of a fill is never read
NeedsRefillEarly(cursor, buf) == cursor = 0 \/ cursor >= Len(buf) - SeedLen
\* fastRand's test for a refill
NeedsRefill(cursor, buf) == cursor = 0 \/ cursor > Len(buf) - SeedLen

\* rand.Read(rbuf) failing after k bytes: the first k are new
PartialFills(buf) ==
    {[i \in 1..Len(buf) |-> IF i <= Len(f) THEN f[i] ELSE buf[i]] :
        f \in UNION {[1..k -> ByteVals] : k \in 0..(Len(buf) - 1)}}
Fills(buf) == [1..Len(buf) -> ByteVals]

----------------------------------------------------------------------------
(* The initial states *)

\* the values of -t
TimeOuts == {-1, 0, 1}

\* the values of -p and -s the search is explored for: empty, short, long
Prefixes ==
    {<<>>, Rep("0", MaxShortLen - 2), Rep("0", MaxShortLen - 2) \o <<"A">>,
     Rep("0", MaxShortLen + 1)}
Suffixes == {<<>>, <<"0", "0">>}
\* and those validation is explored for: with a character that is no hex
\* digit, and of the lengths around the two limits of isValidSubstring
EdgePrefixes ==
    {<<"a", "g">>, Rep("0", MaxShortLen) \o <<"G">>,
     Rep("0", MaxPatternLen - 2), Rep("0", MaxPatternLen - 1),
     Rep("0", MaxPatternLen + 1)}

\* the state of the process after flag.Parse, whatever the flags
Start ==
    /\ pc = "parse"
    /\ bPref = <<>> /\ bSuf = <<>> /\ cmp = "nil"
    /\ timerArmed = FALSE /\ timerFired = FALSE
    /\ spawned = 0
    /\ got = ZeroResult
    /\ wpc = [w \in Workers |-> "idle"]
    /\ res = [w \in Workers |-> ZeroResult]
    /\ n = [w \in Workers |-> 0]
    /\ rbuf = [w \in Workers |-> <<>>]
    /\ stdout = <<>> /\ stderr = <<>> /\ sink = <<>>
    /\ exitCode = Nil
    /\ calls = [w \in Workers |-> 0]
    /\ reads = [w \in Workers |-> 0]
    /\ done = FALSE /\ mutex = "free" /\ tpc = "idle"

\* every flag with crypto.GenerateKey; fastRand for the patterns of the
\* search, with -l, with and without a timer
Init ==
    /\ prefix \in Prefixes \cup EdgePrefixes
    /\ suffix \in Suffixes
    /\ insensitive \in BOOLEAN
    /\ longOk \in BOOLEAN
    /\ timeOut \in TimeOuts
    /\ useFast \in BOOLEAN
    /\ useFast => (prefix \in Prefixes /\ longOk /\ timeOut >= 0)
    /\ counting = FALSE
    /\ Start

Running == exitCode = Nil

\* log.Fatalln(err): the line on stderr, then os.Exit(1)
Fatal(err) ==
    /\ stderr' = Append(stderr, err)
    /\ exitCode' = 1

----------------------------------------------------------------------------
(* The main goroutine *)

\* main.go 125-139: usage, a validation failure, or on to the search
MainValidate ==
    /\ Running /\ pc = "parse"
    /\ LET a == Admit(prefix, suffix, longOk, timeOut) IN
       \/ /\ a = "usage"
          /\ stderr' = Append(stderr, "usage")
          /\ exitCode' = 0
          /\ pc' = "returned"
       \/ /\ a = "search"
          /\ pc' = "setup"
          /\ UNCHANGED <<stderr, exitCode>>
       \/ /\ a \notin {"usage", "search"}
          /\ Fatal(a)
          /\ UNCHANGED pc
    /\ UNCHANGED <<bPref, bSuf, cmp, timerArmed, timerFired, spawned, got>>
    /\ UNCHANGED <<flagVars, probeVars, lockVars, workerVars, stdout, sink>>

\* the pattern of an insensitive search left in the user's letter case
MainSetupNoLower ==
    /\ Running /\ pc = "setup"
    /\ IF insensitive
       THEN /\ bPref' = prefix
            /\ bSuf' = suffix
            /\ cmp' = "insensitiveCmp"
       ELSE /\ bPref' = <<"0", "x">> \o prefix
            /\ bSuf' = suffix
            /\ cmp' = "sensitiveCmp"
    /\ stderr' = Append(stderr, "generating keys")
    /\ timerArmed' = TimerIsArmed(timeOut)
    /\ pc' = "spawn"
    /\ UNCHANGED <<timerFired, spawned, got>>
    /\ UNCHANGED <<flagVars, probeVars, lockVars, workerVars, stdout, sink, exitCode>>

\* main.go 140-162: the pattern, the matcher, the timer, the channel
MainSetup ==
    /\ Running /\ pc = "setup"
    /\ IF insensitive
       THEN /\ bPref' = ToLower(prefix)
            /\ bSuf' = ToLower(suffix)
            /\ cmp' = "insensitiveCmp"
       ELSE /\ bPref' = <<"0", "x">> \o prefix
            /\ bSuf' = suffix
            /\ cmp' = "sensitiveCmp"
    /\ stderr' = Append(stderr, "generating keys")
    /\ timerArmed' = TimerIsArmed(timeOut)
    /\ pc' = "spawn"
    /\ UNCHANGED <<timerFired, spawned, got>>
    /\ UNCHANGED <<flagVars, probeVars, lockVars, workerVars, stdout, sink, exitCode>>

\* main.go 163-195: one turn of the loop that starts the goroutines
MainSpawn ==
    /\ Running /\ pc = "spawn"
    /\ spawned' = spawned + 1
    /\ wpc' = [wpc EXCEPT ![spawned + 1] = "start"]
    /\ pc' = IF spawned + 1 < NumWorkers THEN "spawn" ELSE "select"
    /\ UNCHANGED <<bPref, bSuf, cmp, timerArmed, timerFired, got>>
    /\ UNCHANGED <<flagVars, probeVars, lockVars, res, n, rbuf, ioVars>>

\* the runtime's timer of time.After puts the time on timedOut
TimerFire ==
    /\ Running /\ timerArmed /\ ~timerFired
    /\ timerFired' = TRUE
    /\ UNCHANGED <<pc, bPref, bSuf, cmp, timerArmed, spawned, got>>
    /\ UNCHANGED <<flagVars, probeVars, lockVars, workerVars, ioVars>>

\* the key saved before the address is printed
CommitOrderSaveFirst == <<"save", "print">>
\* main.go 199-200: what main does with a received result, in order
CommitOrder == <<"print", "save">>
\* main selecting again after a commit
AfterCommitStepLoop(step) ==
    IF step = CommitOrder[1] THEN CommitOrder[2] ELSE "select"
AfterCommitStep(step) ==
    IF step = CommitOrder[1] THEN CommitOrder[2] ELSE "return"

\* main.go 198: select takes the result worker w is sending
MainRecv(w) ==
    /\ Running /\ pc = "select"
    /\ wpc[w] = "send"
    /\ got' = res[w]
    /\ wpc' = [wpc EXCEPT ![w] = "done"]
    /\ pc' = CommitOrder[1]
    /\ UNCHANGED <<bPref, bSuf, cmp, timerArmed, timerFired, spawned>>
    /\ UNCHANGED <<flagVars, probeVars, lockVars, res, n, rbuf, ioVars>>

\* the timeout acted on wherever main is, as a timer callback would
MainTimeoutUnguarded ==
    /\ Running
    /\ timerFired
    /\ Fatal(TimeoutMsg(prefix, timeOut))
    /\ UNCHANGED <<mainVars, flagVars, probeVars, lockVars, workerVars, stdout, sink>>

\* main.go 203-208: select takes the timer's value
MainTimeout ==
    /\ Running /\ pc = "select"
    /\ timerFired
    /\ Fatal(TimeoutMsg(prefix, timeOut))
    /\ UNCHANGED <<mainVars, flagVars, probeVars, lockVars, workerVars, stdout, sink>>

\* main.go 199: fmt.Println(res.addr)
MainPrint ==
    /\ Running /\ pc = "print"
    /\ stdout' = Append(stdout, got.addr)
    /\ pc' = AfterCommitStep("print")
    /\ UNCHANGED <<bPref, bSuf, cmp, timerArmed, timerFired, spawned, got>>
    /\ UNCHANGED <<flagVars, probeVars, lockVars, workerVars, stderr, sink, exitCode>>

\* main.go 200-202: crypto.SaveECDSA writes the key file, or fails
MainSave ==
    /\ Running /\ pc = "save"
    /\ \/ /\ sink' = Append(sink, got.privKey)
          /\ pc' = AfterCommitStep("save")
          /\ UNCHANGED <<stderr, exitCode>>
       \/ /\ Fatal("errSave")
          /\ UNCHANGED <<sink, pc>>
    /\ UNCHANGED <<bPref, bSuf, cmp, timerArmed, timerFired, spawned, got>>
    /\ UNCHANGED <<flagVars, probeVars, lockVars, workerVars, stdout>>

\* main returning to a caller that keeps the process alive
MainReturnNoExit ==
    /\ Running /\ pc = "return"
    /\ pc' = "returned"
    /\ UNCHANGED <<bPref, bSuf, cmp, timerArmed, timerFired, spawned, got>>
    /\ UNCHANGED <<flagVars, probeVars, lockVars, workerVars, ioVars>>

\* main.go 210: main returns and the process ends
MainReturn ==
    /\ Running /\ pc = "return"
    /\ exitCode' = 0
    /\ pc' = "returned"
    /\ UNCHANGED <<bPref, bSuf, cmp, timerArmed, timerFired, spawned, got>>
    /\ UNCHANGED <<flagVars, probeVars, lockVars, workerVars, stdout, stderr, sink>>

----------------------------------------------------------------------------
(* The workers *)

\* the cursor moved by a whole seed: windows that do not overlap
FastWindowStride(c, b) ==
    LET r == ToECDSA(SubSeq(b, c + 1, c + SeedLen)) IN
    [n |-> c + SeedLen, rbuf |-> b, pk |-> r.pk, err |-> r.err]

\* one call of the closure fastRand returned, from cursor c and buffer b:
\* the new cursor and buffer, the key and the error
FastWindow(c, b) ==
    LET r == ToECDSA(SubSeq(b, c + 1, c + SeedLen)) IN
    [n |-> c + 1, rbuf |-> b, pk |-> r.pk, err |-> r.err]

\* the cursor set to 1 by a refill: the first window of a fill is skipped
FastRandCallSkipFirst(c, b) ==
    IF NeedsRefill(c, b)
    THEN {[n |-> 0, rbuf |-> f, pk |-> Nil, err |-> "errEntropy"] :
              f \in PartialFills(b)}
         \cup {FastWindow(1, f) : f \in Fills(b)}
    ELSE {FastWindow(c, b)}

FastRandCall(c, b) ==
    IF NeedsRefill(c, b)
    THEN {[n |-> 0, rbuf |-> f, pk |-> Nil, err |-> "errEntropy"] :
              f \in PartialFills(b)}
         \cup {FastWindow(0, f) : f \in Fills(b)}
    ELSE {FastWindow(c, b)}

\* one call of crypto.GenerateKey
GenerateKeyCall(c, b) ==
    {[n |-> c, rbuf |-> b, pk |-> k, err |-> "nil"] : k \in GeneratedKeys}
    \cup {[n |-> c, rbuf |-> b, pk |-> Nil, err |-> "errEntropy"]}

\* one call of k()
KeyCall(fast, c, b) ==
    IF fast THEN FastRandCall(c, b) ELSE GenerateKeyCall(c, b)

\* the worker drawing again when the entropy source failed
OnKeyErrorRetry(err) == IF err = "errEntropy" THEN "retry" ELSE "fatal"
\* what the worker does with an error of k(): "fatal", or "retry"
OnKeyError(err) == "fatal"

\* main.go 165-185: the goroutine picks its key function
WorkerStart(w) ==
    /\ Running /\ wpc[w] = "start"
    /\ IF useFast
       THEN /\ n' = [n EXCEPT ![w] = BufSize(prefix)]
            /\ rbuf' = [rbuf EXCEPT ![w] = Rep(0, BufSize(prefix))]
       ELSE UNCHANGED <<n, rbuf>>
    /\ wpc' = [wpc EXCEPT ![w] = "loop"]
    /\ UNCHANGED <<flagVars, probeVars, lockVars, mainVars, res, ioVars>>

\* main.go 186-193: one turn of the search loop, up to the send on ch
WorkerIter(w) ==
    /\ Running /\ wpc[w] = "loop"
    /\ counting => calls[w] < MaxCalls
    /\ \E o \in KeyCall(useFast, n[w], rbuf[w]) :
        /\ n' = [n EXCEPT ![w] = o.n]
        /\ rbuf' = [rbuf EXCEPT ![w] = o.rbuf]
        /\ calls' = [calls EXCEPT ![w] =
                IF counting /\ o.err = "nil" THEN @ + 1 ELSE @]
        /\ reads' = [reads EXCEPT ![w] =
                IF counting /\ useFast /\ NeedsRefill(n[w], rbuf[w])
                THEN @ + 1 ELSE @]
        /\ IF o.err # "nil"
           THEN /\ res' = [res EXCEPT ![w].privKey = o.pk]
                /\ IF OnKeyError(o.err) = "fatal"
                   THEN Fatal(o.err)
                   ELSE UNCHANGED <<stderr, exitCode>>
                /\ UNCHANGED wpc
           ELSE /\ res' = [res EXCEPT ![w] =
                        [privKey |-> o.pk, addr |-> PubkeyToAddress(o.pk)]]
                /\ wpc' = [wpc EXCEPT ![w] =
                        IF Cmp(cmp, PubkeyToAddress(o.pk), bPref, bSuf)
                        THEN "send" ELSE "loop"]
                /\ UNCHANGED <<stderr, exitCode>>
    /\ UNCHANGED <<flagVars, counting, lockVars, mainVars, stdout, sink>>

----------------------------------------------------------------------------
(* The specification *)

Next ==
    \/ MainValidate
    \/ MainSetup
    \/ MainSpawn
    \/ TimerFire
    \/ \E w \in Workers : MainRecv(w)
    \/ MainTimeout
    \/ MainPrint
    \/ MainSave
    \/ MainReturn
    \/ \E w \in Workers : WorkerStart(w)
    \/ \E w \in Workers : WorkerIter(w)

Spec == Init /\ [][Next]_vars

\* the search with the one scheduling guarantee the properties below need:
\* the Go runtime lets the main goroutine run whenever it can take a step
InitFair ==
    /\ prefix = Rep("0", MaxShortLen - 2)
    /\ suffix \in Suffixes
    /\ insensitive = FALSE
    /\ longOk = FALSE
    /\ useFast \in BOOLEAN
    /\ timeOut \in {0, 1}
    /\ counting = FALSE
    /\ Start

Main ==
    \/ MainValidate \/ MainSetup \/ MainSpawn \/ MainTimeout
    \/ MainPrint \/ MainSave \/ MainReturn
    \/ \E w \in Workers : MainRecv(w)

FairSpec ==
    /\ InitFair /\ [][Next]_vars
    /\ WF_vars(Main)

\* the search with fastRand and the probe counting: a prefix of each
\* buffer size, matched by a key without the suffix and by none with it
InitRand ==
    /\ prefix \in {Rep("0", MaxShortLen - 2) \o <<"A">>,
                   Rep("0", MaxShortLen + 1)}
    /\ suffix \in Suffixes
    /\ insensitive = FALSE
    /\ longOk = TRUE
    /\ useFast = TRUE
    /\ timeOut \in {0, 1}
    /\ counting = TRUE
    /\ Start

RandSpec == InitRand /\ [][Next]_vars

\* the patterns the matchers are explored for: empty, matched by a key in
\* full or in part, in either letter case, as long as the encoding, longer
CmpPrefixes ==
    {<<>>, <<"0">>, <<"0", "0", "0">>, <<"0", "0", "0", "A">>,
     <<"0", "0", "0", "a">>, <<"a", "B">>, <<"A", "B">>,
     Rep("0", 2 * Len(ZeroAddr)), Rep("0", 2 * Len(ZeroAddr) + 1)}
CmpSuffixes == {<<>>, <<"0", "0">>, <<"b", "0">>, <<"B", "0">>, <<"E", "F">>}

\* the search with crypto.GenerateKey and -l for those patterns
InitCmp ==
    /\ prefix \in CmpPrefixes
    /\ suffix \in CmpSuffixes
    /\ insensitive \in BOOLEAN
    /\ longOk = TRUE
    /\ useFast = FALSE
    /\ timeOut \in {0, 1}
    /\ counting = FALSE
    /\ Start

CmpSpec == InitCmp /\ [][Next]_vars

----------------------------------------------------------------------------
(* The single-threaded variant of part_000: one search loop in main, a     *)
(* timer callback, and the flag done under the mutex m.  It has the flags  *)
(* -p, -l, -t and -o only; the modified *prefix is kept in bPref, and priv *)
(* and addr in got.                                                        *)

\* what this variant never touches
lkUnused == <<flagVars, workerVars, probeVars, bSuf, cmp, timerFired, spawned>>

\* isValidPrefix: "nil" or the error it returns
isValidPrefix(s) ==
    IF Len(s) > MaxPatternLen THEN "errTooLongInvalid"
    ELSE IF \E i \in 1..Len(s) : ~IsHexChar(s[i]) THEN "errInvalid"
    ELSE IF Len(s) > MaxShortLen THEN "errTooLong"
    ELSE "nil"

\* strings.HasPrefix
HasPrefix(s, p) == Len(s) >= Len(p) /\ SubSeq(s, 1, Len(p)) = p

\* the text of the callback's error: "second" or "seconds"
LkTimeoutMsg(t) ==
    IF t > 1 THEN "operation timed out: seconds"
             ELSE "operation timed out: second"

\* part_000 237-251: usage, a validation failure, or on to the search
LkValidate ==
    /\ Running /\ pc = "parse"
    /\ LET err == isValidPrefix(prefix) IN
       IF prefix = <<>>
       THEN /\ stderr' = Append(stderr, "usage")
            /\ exitCode' = 0
            /\ pc' = "returned"
       ELSE IF err # "nil" /\ (err # "errTooLong" \/ (~longOk /\ timeOut = 0))
       THEN Fatal(err) /\ UNCHANGED pc
       ELSE pc' = "setup" /\ UNCHANGED <<stderr, exitCode>>
    /\ UNCHANGED <<lkUnused, lockVars, bPref, timerArmed, got, stdout, sink>>

\* part_000 252-274: "0x" before the prefix, the log line, time.AfterFunc
LkSetup ==
    /\ Running /\ pc = "setup"
    /\ bPref' = <<"0", "x">> \o prefix
    /\ stderr' = Append(stderr, "generating keys")
    /\ timerArmed' = (timeOut > 0)
    /\ pc' = "loop"
    /\ UNCHANGED <<lkUnused, lockVars, got, stdout, sink, exitCode>>

\* part_000 280-286: one turn of the search loop
LkIter ==
    /\ Running /\ pc = "loop"
    /\ \/ \E k \in GeneratedKeys :
            /\ got' = [privKey |-> k, addr |-> PubkeyToAddress(k)]
            /\ pc' = IF HasPrefix(Hex(PubkeyToAddress(k)), bPref)
                     THEN "lock" ELSE "loop"
            /\ UNCHANGED <<stderr, exitCode>>
       \/ /\ got' = [got EXCEPT !.privKey = Nil]
          /\ Fatal("errEntropy")
          /\ UNCHANGED pc
    /\ UNCHANGED <<lkUnused, lockVars, bPref, timerArmed, stdout, sink>>

\* main taking the lock although the callback holds it
LkLockNoWait ==
    /\ Running /\ pc = "lock"
    /\ mutex' = "main"
    /\ pc' = "setdone"
    /\ UNCHANGED <<lkUnused, done, tpc, bPref, timerArmed, got, ioVars>>

\* part_000 287: m.Lock()
LkLock ==
    /\ Running /\ pc = "lock"
    /\ mutex = "free"
    /\ mutex' = "main"
    /\ pc' = "setdone"
    /\ UNCHANGED <<lkUnused, done, tpc, bPref, timerArmed, got, ioVars>>

\* part_000 288: done = true
LkSetDone ==
    /\ Running /\ pc = "setdone"
    /\ done' = TRUE
    /\ pc' = "unlock"
    /\ UNCHANGED <<lkUnused, mutex, tpc, bPref, timerArmed, got, ioVars>>

\* part_000 289: m.Unlock()
LkUnlock ==
    /\ Running /\ pc = "unlock"
    /\ mutex' = "free"
    /\ pc' = "print"
    /\ UNCHANGED <<lkUnused, done, tpc, bPref, timerArmed, got, ioVars>>

\* part_000 290: fmt.Println(addr)
LkPrint ==
    /\ Running /\ pc = "print"
    /\ stdout' = Append(stdout, got.addr)
    /\ pc' = "save"
    /\ UNCHANGED <<lkUnused, lockVars, bPref, timerArmed, got>>
    /\ UNCHANGED <<stderr, sink, exitCode>>

\* part_000 291-293: crypto.SaveECDSA writes the key file, or fails
LkSave ==
    /\ Running /\ pc = "save"
    /\ \/ /\ sink' = Append(sink, got.privKey)
          /\ pc' = "return"
          /\ UNCHANGED <<stderr, exitCode>>
       \/ /\ Fatal("errSave")
          /\ UNCHANGED <<sink, pc>>
    /\ UNCHANGED <<lkUnused, lockVars, bPref, timerArmed, got, stdout>>

\* part_000 294: main returns and the process ends
LkReturn ==
    /\ Running /\ pc = "return"
    /\ exitCode' = 0
    /\ pc' = "returned"
    /\ UNCHANGED <<lkUnused, lockVars, bPref, timerArmed, got>>
    /\ UNCHANGED <<stdout, stderr, sink>>

\* part_000 261-266: the timer expires and the runtime starts the callback
TimerStart ==
    /\ Running /\ timerArmed /\ tpc = "idle"
    /\ tpc' = "lock"
    /\ UNCHANGED <<lkUnused, mainVars, done, mutex, ioVars>>

\* part_000 267: m.Lock() in the callback
TimerLock ==
    /\ Running /\ tpc = "lock"
    /\ mutex = "free"
    /\ mutex' = "timer"
    /\ tpc' = "check"
    /\ UNCHANGED <<lkUnused, mainVars, done, ioVars>>

\* part_000 268: if !done
TimerCheck ==
    /\ Running /\ tpc = "check"
    /\ tpc' = IF ~done THEN "report" ELSE "unlock"
    /\ UNCHANGED <<lkUnused, mainVars, done, mutex, ioVars>>

\* part_000 269: log.Fatalln writes its line ...
TimerReport ==
    /\ Running /\ tpc = "report"
    /\ stderr' = Append(stderr, LkTimeoutMsg(timeOut))
    /\ tpc' = "exit"
    /\ UNCHANGED <<lkUnused, mainVars, done, mutex, stdout, sink, exitCode>>

\* ... and then calls os.Exit(1)
TimerExit ==
    /\ Running /\ tpc = "exit"
    /\ exitCode' = 1
    /\ UNCHANGED <<lkUnused, mainVars, lockVars, stdout, stderr, sink>>

\* part_000 272: m.Unlock() in the callback
TimerUnlock ==
    /\ Running /\ tpc = "unlock"
    /\ mutex' = "free"
    /\ tpc' = "returned"
    /\ UNCHANGED <<lkUnused, mainVars, done, ioVars>>

LkNext ==
    \/ LkValidate \/ LkSetup \/ LkIter
    \/ LkLock \/ LkSetDone \/ LkUnlock
    \/ LkPrint \/ LkSave \/ LkReturn
    \/ TimerStart \/ TimerLock \/ TimerCheck
    \/ TimerReport \/ TimerExit \/ TimerUnlock

\* the values of -p, -l and -t of this variant
InitLock ==
    /\ prefix \in {<<>>, <<"0", "0", "0">>, <<"0", "0", "0", "A">>,
                   <<"a", "g">>, Rep("0", MaxShortLen + 1)}
    /\ suffix = <<>>
    /\ insensitive = FALSE
    /\ longOk \in BOOLEAN
    /\ useFast = FALSE
    /\ timeOut \in {0, 1, 2}
    /\ counting = FALSE
    /\ Start

LockSpec == InitLock /\ [][LkNext]_vars

----------------------------------------------------------------------------
(* The properties *)

Pattern == prefix \o suffix
HexChars ==
    {"0", "1", "2", "3", "4", "5", "6", "7", "8", "9",
     "a", "b", "c", "d", "e", "f", "A", "B", "C", "D", "E", "F"}
AllHex(s) == \A i \in 1..Len(s) : s[i] \in HexChars

Logged(m) == \E i \in 1..Len(stderr) : stderr[i] = m
TimeoutReported == \E i \in 1..Len(stderr) : IsTimeoutMsg(stderr[i])
Rejected ==
    Logged("errTooLongInvalid") \/ Logged("errInvalid") \/ Logged("errTooLong")
NoWorkerStarted == spawned = 0 /\ \A w \in Workers : wpc[w] = "idle"
Received == {w \in Workers : wpc[w] = "done"}

StartsWith(s, p) == Len(p) <= Len(s) /\ SubSeq(s, 1, Len(p)) = p
EndsWith(s, p) ==
    Len(p) <= Len(s) /\ SubSeq(s, Len(s) - Len(p) + 1, Len(s)) = p

\* the address satisfies the pattern the user asked for
Satisfies(a) ==
    IF insensitive
    THEN /\ StartsWith(HexEncode(a), ToLower(prefix))
         /\ EndsWith(HexEncode(a), ToLower(suffix))
    ELSE /\ StartsWith(SubSeq(Hex(a), 3, Len(Hex(a))), prefix)
         /\ EndsWith(SubSeq(Hex(a), 3, Len(Hex(a))), suffix)

\* C1: the timeout and a commit never both happen: once the timeout failure
\* is reported nothing was received, printed or persisted, and nothing is
\* afterwards (the process is gone); at most one address is printed and at
\* most one key persisted.
C1_OneOutcome ==
    /\ TimeoutReported =>
          /\ stdout = <<>> /\ sink = <<>> /\ got = ZeroResult
          /\ exitCode = 1
    /\ Len(stdout) <= 1 /\ Len(sink) <= 1
    /\ Len(SelectSeq(stderr, IsTimeoutMsg)) <= 1

\* the timeout is reported while a worker is offering its result
C1_Witness == TimeoutReported /\ \E w \in Workers : wpc[w] = "send"

\* C2: the sink and stdout are written at most once, by main, with the one
\* result it received from the channel; at most one result is ever received,
\* so a later post is never printed or persisted.
C2_SinkWrittenOnce ==
    /\ Len(sink) <= 1 /\ Len(stdout) <= 1
    /\ Cardinality(Received) <= 1
    /\ (stdout # <<>> \/ sink # <<>>) =>
          /\ \E w \in Received : res[w] = got
          /\ pc \in {"save", "return", "returned"}
    /\ stdout # <<>> => stdout[1] = got.addr
    /\ sink # <<>> => sink[1] = got.privKey

\* the key is persisted while another worker still offers a different key
C2_Witness ==
    /\ sink # <<>>
    /\ \E w \in Workers : wpc[w] = "send" /\ res[w].privKey # got.privKey

\* C3: every result a worker posts, the result main received, the address
\* printed and the key persisted: the address satisfies the prefix and the
\* suffix, and it is the address of that very key.
C3_PostedResultsMatch ==
    /\ \A w \in Workers : wpc[w] \in {"send", "done"} =>
          /\ res[w].privKey # Nil
          /\ res[w].addr = PubkeyToAddress(res[w].privKey)
          /\ Satisfies(res[w].addr)
    /\ got # ZeroResult =>
          /\ got.addr = PubkeyToAddress(got.privKey)
          /\ Satisfies(got.addr)
    /\ stdout # <<>> => Satisfies(stdout[1])
    /\ (stdout # <<>> /\ sink # <<>>) => stdout[1] = PubkeyToAddress(sink[1])

\* a case-sensitive search with a prefix and a suffix committed its result
C3_Witness ==
    /\ sink # <<>> /\ stdout # <<>>
    /\ prefix # <<>> /\ suffix # <<>> /\ ~insensitive

\* C4: the address is on stdout before the key is saved or the save is even
\* tried; a failed save ends the process with status 1, the address printed
\* and no key written.
C4_PrintBeforePersist ==
    /\ pc = "save" => stdout = <<got.addr>>
    /\ sink # <<>> => stdout = <<got.addr>>
    /\ Logged("errSave") =>
          /\ stdout = <<got.addr>>
          /\ sink = <<>>
          /\ exitCode = 1

\* the save failed
C4_Witness == Logged("errSave") /\ stdout # <<>> /\ exitCode = 1

\* C5: a pattern longer than 32 or with a character that is no hex digit
\* never gets a worker started, whatever -l and -t are, and once main has
\* validated it the process has ended with status 1 and the one error.
C5_InvalidAlwaysAborts ==
    (Pattern # <<>> /\ (Len(Pattern) > 32 \/ ~AllHex(Pattern))) =>
        /\ NoWorkerStarted
        /\ pc = "parse"
        /\ stdout = <<>> /\ sink = <<>>
        /\ ~Running =>
              /\ exitCode = 1
              /\ stderr = <<IF Len(Pattern) > 32 THEN "errTooLongInvalid"
                                                ELSE "errInvalid">>

\* a pattern of six characters, one no hex digit, is refused with -l and -t
C5_Witness ==
    /\ ~Running /\ exitCode = 1
    /\ longOk /\ timeOut > 0
    /\ Len(Pattern) > 5 /\ Len(Pattern) <= 32 /\ ~AllHex(Pattern)

\* C6: for a non-empty pattern of at most 32 hex digits, once validated:
\* the search goes on exactly if the pattern has at most 5 characters or -l
\* or a -t is given; otherwise the process has ended with errTooLong and no
\* worker; a pattern of at most 5 characters logs no validation error.
C6_AdmissionRule ==
    (Pattern # <<>> /\ Len(Pattern) <= 32 /\ AllHex(Pattern)) =>
        /\ pc # "parse" =>
              (Len(Pattern) <= 5 \/ longOk \/ timeOut # 0)
        /\ (~Running /\ pc = "parse") =>
              /\ ~(Len(Pattern) <= 5 \/ longOk \/ timeOut # 0)
              /\ stderr = <<"errTooLong">> /\ exitCode = 1
              /\ NoWorkerStarted
        /\ ~NoWorkerStarted => pc # "parse"
        /\ ~(Len(Pattern) <= 5 \/ longOk \/ timeOut # 0) => NoWorkerStarted
        /\ Len(Pattern) <= 5 => ~Rejected

\* a pattern of 32 digits is searched for because of -t alone
C6_Witness ==
    /\ Len(Pattern) = 32 /\ AllHex(Pattern)
    /\ ~longOk /\ timeOut # 0
    /\ pc = "select"

\* C7: a pattern of more than 5 characters admitted because of -t, without
\* -l, is searched for with the timer armed.
C7_AdmittedByTimeoutIsBounded ==
    (Len(Pattern) > 5 /\ ~longOk /\ pc \in {"spawn", "select"}) => timerArmed

\* C8, its safety half: with -t 0, a search that has ended, the entropy
\* source and the save not having failed, has committed exactly one result.
C8_EndsCommitted ==
    (/\ timeOut = 0
     /\ Logged("generating keys")
     /\ ~Running
     /\ ~Logged("errEntropy") /\ ~Logged("errSave")) =>
        Len(sink) = 1 /\ Len(stdout) = 1

\* C9: main receives at most one result, and a worker blocked in its send
\* does not stay blocked: its result is received or the process ends.
C9_NoSenderStuck ==
    /\ [](Cardinality(Received) <= 1)
    /\ \A w \in Workers :
          (Running /\ wpc[w] = "send") ~> (~Running \/ wpc[w] # "send")

\* a worker found a match after main received another worker's result
C9_Witness ==
    /\ Running /\ got # ZeroResult
    /\ \E w \in Workers : wpc[w] = "send"

\* C10: a seed ToECDSA refuses does not end the process.
C10_DerivationFailureIsRejection == ~Logged("errInvalidKey")

IsEntropyErr(m) == m = "errEntropy"

\* C11: a failed read of the entropy source, with fastRand or with
\* crypto.GenerateKey, ends the process with status 1 and that one error as
\* the last line; the worker it failed in has no key, read no window (the
\* cursor is still 0) and is not sending; and a worker that is seen after a
\* failed read (cursor 0 with fastRand, no key beside an earlier address
\* with GenerateKey) is never seen in a running process: it did not retry.
C11_EntropyFailureIsFatal ==
    /\ Logged("errEntropy") =>
          /\ ~Running /\ exitCode = 1
          /\ stderr[Len(stderr)] = "errEntropy"
          /\ Len(SelectSeq(stderr, IsEntropyErr)) = 1
          /\ \E w \in Workers :
                /\ wpc[w] = "loop" /\ res[w].privKey = Nil
                /\ useFast => n[w] = 0
    /\ \A w \in Workers :
          /\ (useFast /\ wpc[w] \in {"loop", "send", "done"} /\ n[w] = 0) =>
                Logged("errEntropy")
          /\ (~useFast /\ wpc[w] = "loop" /\ res[w].privKey = Nil
                /\ res[w].addr # ZeroAddr) => Logged("errEntropy")
          /\ wpc[w] \in {"send", "done"} => res[w].privKey # Nil

\* a refill failed after some bytes were written, in a worker that had
\* drawn keys from the fill before
C11_Witness ==
    /\ Logged("errEntropy") /\ useFast
    /\ \E w \in Workers :
          /\ n[w] = 0 /\ res[w].privKey = Nil /\ res[w].addr # ZeroAddr
          /\ \E i \in 1..Len(rbuf[w]) : rbuf[w][i] # 0

\* a call of crypto.GenerateKey failed after an earlier one gave a key
C11_WitnessGenerateKey ==
    /\ Logged("errEntropy") /\ ~useFast
    /\ \E w \in Workers : res[w].privKey = Nil /\ res[w].addr # ZeroAddr

\* worker w calls k() in this step
KCalled(w) ==
    /\ wpc[w] = "loop"
    /\ n'[w] # n[w] \/ calls'[w] # calls[w] \/ reads'[w] # reads[w]
\* the closure called rand.Read in this step
Refilled(w) == reads'[w] = reads[w] + 1

\* C12: a worker's buffer has the capacity it was made with and the cursor
\* starts at the capacity; on every call of k() the buffer is refilled
\* exactly if cursor + SeedLen > capacity, which it is on the first call;
\* a refill resets the cursor to 0; and the window a call reads (at the new
\* cursor minus 1) lies inside the buffer.
C12_RefillExactlyOnOverrun ==
    /\ [](\A w \in Workers : wpc[w] \in {"loop", "send", "done"} =>
            /\ Len(rbuf[w]) = BufSize(prefix)
            /\ n[w] \in 0..Len(rbuf[w])
            /\ reads[w] = 0 => n[w] = Len(rbuf[w]))
    /\ [][\A w \in Workers : KCalled(w) =>
            /\ Refilled(w) <=> (n[w] + SeedLen > Len(rbuf[w]))
            /\ ~Refilled(w) => reads'[w] = reads[w]
            /\ reads[w] = 0 => Refilled(w)
            /\ Refilled(w) => n'[w] \in {0, 1}
            /\ n'[w] > 0 => (n'[w] - 1) + SeedLen <= Len(rbuf'[w])
            /\ n'[w] = 0 => (Refilled(w) /\ exitCode' = 1)
            /\ Len(rbuf'[w]) = Len(rbuf[w])]_vars

\* a worker refilled its buffer a second time and read a window of it
C12_Witness ==
    \E w \in Workers : reads[w] = 2 /\ n[w] = 1 /\ calls[w] > 2

\* every address of the oracle
Addresses == Range(AddrTable)
\* the text the chosen matcher compares the pattern with
Encoding(f, a) == IF f = "insensitiveCmp" THEN HexEncode(a) ELSE Hex(a)
\* the pattern fits the text, starts it and ends it
Accepts(text, pre, suf) ==
    /\ Len(pre) + Len(suf) <= Len(text)
    /\ StartsWith(text, pre)
    /\ EndsWith(text, suf)

\* C13: for the matcher and the pattern main prepared, in either mode and
\* for every address: the matcher is true exactly if the pattern is no longer
\* than the encoding, the prefix is its first characters and the suffix its
\* last; it is defined (and false) for a pattern longer than the encoding;
\* and a worker goes on to send exactly on such an address.
C13_MatcherIsPrefixAndSuffix ==
    cmp # "nil" =>
        /\ \A a \in Addresses :
              /\ Cmp(cmp, a, bPref, bSuf) \in BOOLEAN
              /\ Cmp(cmp, a, bPref, bSuf) <=>
                    Accepts(Encoding(cmp, a), bPref, bSuf)
              /\ Len(bPref) + Len(bSuf) > Len(Encoding(cmp, a)) =>
                    ~Cmp(cmp, a, bPref, bSuf)
              /\ ~(StartsWith(Encoding(cmp, a), bPref)
                    /\ EndsWith(Encoding(cmp, a), bSuf)) =>
                    ~Cmp(cmp, a, bPref, bSuf)
        /\ \A w \in Workers :
              /\ wpc[w] \in {"send", "done"} =>
                    Accepts(Encoding(cmp, res[w].addr), bPref, bSuf)
              /\ (wpc[w] = "loop" /\ res[w].privKey # Nil) =>
                    ~Accepts(Encoding(cmp, res[w].addr), bPref, bSuf)

\* a worker drew an address with the prefix but not the suffix and goes on
C13_Witness ==
    /\ bSuf # <<>> /\ Len(bPref) > 2
    /\ \E w \in Workers :
          /\ wpc[w] = "loop" /\ res[w].privKey # Nil
          /\ StartsWith(Encoding(cmp, res[w].addr), bPref)
          /\ ~EndsWith(Encoding(cmp, res[w].addr), bSuf)

\* the letter cases a user can write a pattern in
ToUpper(s) == [i \in 1..Len(s) |-> ToUpperChar(s[i])]
CaseVariants(s) == {s, ToLower(s), ToUpper(s)}

\* C14: for every address: an insensitive search accepts it exactly if the
\* exact comparison accepts the lowercased text of the address against the
\* lowercased pattern, and the same whatever letter case the pattern is
\* written in; a sensitive search accepts it only if the insensitive matcher
\* accepts it for the same pattern.
C14_CaseConsistent ==
    cmp # "nil" =>
        \A a \in Addresses :
            /\ insensitive =>
                  /\ Cmp(cmp, a, bPref, bSuf) <=>
                        Accepts(ToLower(Hex(a)),
                                ToLower(<<"0", "x">> \o prefix),
                                ToLower(suffix))
                  /\ \A q \in CaseVariants(prefix), r \in CaseVariants(suffix) :
                        Cmp(cmp, a, bPref, bSuf) <=>
                            insensitiveCmp(a, ToLower(q), ToLower(r))
            /\ ~insensitive =>
                  (Cmp(cmp, a, bPref, bSuf) =>
                      insensitiveCmp(a, ToLower(prefix), ToLower(suffix)))

\* an insensitive search for a pattern with a capital sends an address whose
\* lowercase digits start with the pattern in lower case, not as written
C14_Witness ==
    /\ insensitive /\ prefix # ToLower(prefix)
    /\ \E w \in Workers :
          /\ wpc[w] = "send"
          /\ StartsWith(HexEncode(res[w].addr), ToLower(prefix))
          /\ ~StartsWith(HexEncode(res[w].addr), prefix)

\* C15: with -t 0 no timer is armed and none fires, the timeout is never
\* reported, and a search that has ended has either committed (the address
\* printed, the key saved, status 0) or died of a fatal error of a worker
\* or of the save (status 1, that error the last line).
C15_NoTimerWithoutDeadline ==
    timeOut = 0 =>
        /\ ~timerArmed /\ ~timerFired
        /\ ~TimeoutReported
        /\ (~Running /\ Logged("generating keys")) =>
              \/ /\ exitCode = 0 /\ pc = "returned"
                 /\ Len(stdout) = 1 /\ Len(sink) = 1
              \/ /\ exitCode = 1
                 /\ stderr[Len(stderr)] \in
                        {"errEntropy", "errInvalidKey", "errSave"}

\* a search without a deadline ended by its commit
C15_Witness ==
    /\ timeOut = 0 /\ ~Running
    /\ pc = "returned" /\ Len(sink) = 1

\* C16: in the single-threaded variant done changes once, from FALSE to
\* TRUE, by main holding the mutex, and nothing is printed or saved before;
\* the callback tests done, reports and exits only while it holds the mutex;
\* a callback that found done set returns without a report; once the
\* timeout is reported done is not set, nothing is or will be printed or
\* saved (main is not past m.Lock()); so a reported timeout and a saved key
\* never both occur.
C16_DecisionUnderMutex ==
    /\ [](/\ pc = "setdone" => mutex = "main"
          /\ tpc \in {"check", "report", "exit"} => mutex = "timer"
          /\ done => pc \in {"unlock", "print", "save", "return", "returned"}
          /\ pc \in {"unlock", "print", "save", "return"} => done
          /\ (stdout # <<>> \/ sink # <<>>) => done
          /\ tpc \in {"report", "exit"} => ~done
          /\ tpc \in {"unlock", "returned"} => (done /\ ~TimeoutReported)
          /\ TimeoutReported =>
                /\ ~done /\ stdout = <<>> /\ sink = <<>>
                /\ mutex = "timer" /\ tpc = "exit"
          /\ ~(TimeoutReported /\ sink # <<>>))
    /\ [][/\ done' # done =>
                (~done /\ done' /\ mutex = "main" /\ pc = "setdone")
          /\ TimeoutReported =>
                (stdout' = stdout /\ sink' = sink /\ mutex' = "timer")]_vars

\* main found a key and waits for the mutex while the callback holds it and
\* has reported the timeout
C16_Witness ==
    /\ TimeoutReported /\ Running
    /\ pc = "lock" /\ mutex = "timer"

\* the callback ran after done was set and returned; main went on to save
C16_WitnessLate ==
    /\ tpc = "returned" /\ done /\ sink # <<>>

\* C17: the buffer a worker gave fastRand is the large one exactly if the
\* prefix and the suffix together have more than 5 characters or -t is set.
C17_LargeBufferIffLongOrTimed ==
    \A w \in Workers :
        (useFast /\ wpc[w] \in {"loop", "send", "done"}) =>
            (Len(rbuf[w]) = LargeBuf <=>
                (Len(Pattern) > MaxShortLen \/ timeOut # 0))

\* the window of SeedLen bytes at cursor c (counted from 0) of buffer b
Window(b, c) == SubSeq(b, c + 1, c + SeedLen)

\* C18: a call of k() that reads a window moves the cursor by exactly 1,
\* from 0 after a refill; the key it returns is the one of the window at the
\* cursor it started from, so two calls with no refill between them read
\* the windows at c and c + 1 of the same bytes, which share SeedLen - 1 of
\* them; and the buffer changes in no step but a refill.
C18_WindowSlidesByOne ==
    /\ [](\A w \in Workers :
            (wpc[w] \in {"loop", "send", "done"} /\ reads[w] > 0
                /\ n[w] > 0) =>
                /\ n[w] - 1 + SeedLen <= Len(rbuf[w])
                /\ res[w].privKey = ToECDSA(Window(rbuf[w], n[w] - 1)).pk)
    /\ [][\A w \in Workers :
            /\ (KCalled(w) /\ ~Refilled(w)) =>
                  /\ n'[w] = n[w] + 1
                  /\ rbuf'[w] = rbuf[w]
                  /\ \A i \in 1..(SeedLen - 1) :
                        Window(rbuf'[w], n'[w] - 1)[i]
                            = Window(rbuf[w], n[w] - 1)[i + 1]
            /\ (KCalled(w) /\ Refilled(w) /\ n'[w] > 0) => n'[w] = 1
            /\ (wpc[w] # "start" /\ rbuf'[w] # rbuf[w]) =>
                  (KCalled(w) /\ Refilled(w))]_vars

\* a worker has read every window of its first fill of the large buffer,
\* each giving a key
C18_Witness ==
    \E w \in Workers :
        /\ Len(rbuf[w]) = LargeBuf /\ reads[w] = 1
        /\ n[w] = LargeBuf - SeedLen + 1 /\ calls[w] = n[w]

\* C19: once main has received a result the process ends only by main: the
\* key is saved or the save has failed (here even leaving aside the runs a
\* refused seed ends).
C19_CommitNotInterruptedByWorker ==
    (got # ZeroResult /\ ~Running /\ ~Logged("errInvalidKey")) =>
        (sink # <<>> \/ Logged("errSave"))

\* the number of windows in a buffer of capacity c (c - 31 in the code)
WindowsPerFill(c) == c - SeedLen + 1
CeilDiv(a, b) == (a + b - 1) \div b

\* C20: for a worker whose calls of k() all returned a key, k of them: the
\* cursor of the windows read runs from 0 to capacity - SeedLen, the k-th
\* window is number (k - 1) modulo capacity - SeedLen + 1 of its fill, and
\* rand.Read was called exactly ceil(k / (capacity - SeedLen + 1)) times;
\* after a call that failed no more than that plus one.
C20_ReadsPerCandidates ==
    \A w \in Workers :
        wpc[w] \in {"loop", "send", "done"} =>
            LET per == WindowsPerFill(Len(rbuf[w])) IN
            /\ (calls[w] = 0 /\ res[w].privKey = Nil /\ Running) =>
                  reads[w] = 0
            /\ res[w].privKey # Nil =>
                  /\ calls[w] > 0
                  /\ reads[w] = CeilDiv(calls[w], per)
                  /\ n[w] - 1 = (calls[w] - 1) % per
                  /\ n[w] - 1 \in 0..(Len(rbuf[w]) - SeedLen)
            /\ reads[w] \in {CeilDiv(calls[w], per),
                             CeilDiv(calls[w], per) + 1}

\* a worker is at the first window of its third fill of the small buffer
C20_Witness ==
    \E w \in Workers :
        /\ Len(rbuf[w]) = SmallBuf /\ res[w].privKey # Nil
        /\ calls[w] = 2 * WindowsPerFill(SmallBuf) + 1
        /\ reads[w] = 3

====
